---- MODULE Spec2Model ----
(***************************************************************************)
(* Lumora (src/app.py): a Streamlit application over six SQLite tables.    *)
(* Every browser session runs the script in its own thread; every store    *)
(* helper opens its own connection, so the statements of two requests      *)
(* interleave at statement granularity.  A step of this model is one SQL   *)
(* statement together with the Python code around it.                      *)
(*                                                                         *)
(* Text that the code inspects character by character (user names, class   *)
(* codes) is a sequence of one-character strings; text that is only        *)
(* compared or stored (passwords, class names, messages) is a string.      *)
(* created_at / joined_at columns are never read by the code and are left  *)
(* out of the rows.                                                        *)
(***************************************************************************)
EXTENDS Integers, Sequences, FiniteSets, TLC

VARIABLES users, survey_results, lessons, classes, class_members,
          class_lessons, api_key, session, sliders, pc, req, out

tables == <<users, survey_results, lessons, classes, class_members, class_lessons>>
vars == <<users, survey_results, lessons, classes, class_members, class_lessons,
          api_key, session, sliders, pc, req, out>>

---------------------------------------------------------------------------
(* Bounds of the model. *)

\* browser sessions of visitors and students (session 0 is the teacher's)
NumSessions == 2
\* distinct codes the random generator is allowed to draw in the model
NumCodes == 2
\* rows allowed in survey_results
MaxSurveys == 2
\* an assignment may start while class_lessons has fewer rows than this
MaxLessonRows == 2

Sessions == 0..NumSessions
TeacherSession == CHOOSE s \in Sessions : \A t \in Sessions : s <= t

---------------------------------------------------------------------------
(* Characters and text helpers. *)

UpperSeq == <<"A","B","C","D","E","F","G","H","I","J","K","L","M",
              "N","O","P","Q","R","S","T","U","V","W","X","Y","Z">>
DigitSeq == <<"0","1","2","3","4","5","6","7","8","9">>
Upper == {"A","B","C","D","E","F","G","H","I","J","K","L","M",
          "N","O","P","Q","R","S","T","U","V","W","X","Y","Z"}
Lower == {"a","b","c","d","e","f","g","h","i","j","k","l","m",
          "n","o","p","q","r","s","t","u","v","w","x","y","z"}
Digits == {"0","1","2","3","4","5","6","7","8","9"}
Whitespace == {" ", "\t", "\n"}

\* string.ascii_uppercase + string.digits
CodeAlphabet == UpperSeq \o DigitSeq

RECURSIVE LStrip(_)
LStrip(s) ==
    IF s # <<>> /\ Head(s) \in Whitespace THEN LStrip(Tail(s)) ELSE s

RECURSIVE RStrip(_)
RStrip(s) ==
    IF s # <<>> /\ s[Len(s)] \in Whitespace
    THEN RStrip(SubSeq(s, 1, Len(s) - 1))
    ELSE s

\* str.strip()
Strip(s) == RStrip(LStrip(s))

\* [A-Z][a-zA-Z]+
IsNameWord(w) ==
    /\ Len(w) >= 2
    /\ w[1] \in Upper
    /\ \A k \in 2..Len(w) : w[k] \in Upper \/ w[k] \in Lower

\* re.match(NAME_PATTERN, s): ^[A-Z][a-zA-Z]+ [A-Z]\. [A-Z][a-zA-Z]+$
\* ($ also matches just before one trailing newline)
MatchesNamePattern(s) ==
    \E i \in 1..Len(s) : \E e \in {Len(s), Len(s) - 1} :
        /\ i + 4 <= e
        /\ (e = Len(s) - 1) => (s[Len(s)] = "\n")
        /\ s[i] = " "
        /\ s[i + 1] \in Upper
        /\ s[i + 2] = "."
        /\ s[i + 3] = " "
        /\ IsNameWord(SubSeq(s, 1, i - 1))
        /\ IsNameWord(SubSeq(s, i + 4, e))

\* hashlib.sha256(pw.encode()).hexdigest(): the digest is a value that
\* determines, and is determined by, the password (no collisions modelled)
hash_pw(pw) == <<"sha256", pw>>

---------------------------------------------------------------------------
(* Store helpers.  A table is the sequence of its rows in insertion order; *)
(* INTEGER PRIMARY KEY gives a new row the largest id so far plus one.     *)

RECURSIVE MaxId(_)
MaxId(t) ==
    IF t = <<>> THEN 0
    ELSE LET m == MaxId(Tail(t))
         IN  IF Head(t).id > m THEN Head(t).id ELSE m

NextRowId(t) == MaxId(t) + 1

\* user_exists(name)
user_exists(name) == \E i \in 1..Len(users) : users[i].name = name

---------------------------------------------------------------------------
(* Per-session state: st.session_state (login fields), the position of the *)
(* running request and the locals of the request.  out is the response    *)
(* most recently rendered: the session it went to and its message.         *)

NoReq ==
    [op |-> "none", name |-> <<>>, role |-> "", pw |-> "", pw2 |-> "",
     class_id |-> 0, topic |-> "", subject |-> "",
     text |-> <<>>, students |-> <<>>, i |-> 0, dominant |-> "",
     base |-> 0, enrolled |-> {}, nsurv |-> <<>>,
     gtopic |-> <<>>, tailored |-> <<>>]

NoOut == [session |-> 0, msg |-> ""]

LoggedOut ==
    [user_id |-> 0, user_name |-> <<>>, user_role |-> "None",
     logged_in |-> FALSE, page |-> "auth"]

MsgFill == "Please fill name and password."
MsgNameFormat == "Name must be like: Juan D. Cruz"
MsgPwMismatch == "Passwords do not match."
MsgUserExists == "User already exists. Please log in."
MsgAccountCreated == "Account created. Please switch to 'Log in' to sign in."
\* an exception that leaves the handler uncaught (sqlite3.IntegrityError)
ExcIntegrity == "uncaught sqlite3.IntegrityError"

---------------------------------------------------------------------------
(* Sign up (landing_ui, "Sign up" form). *)

\* names typed into the sign-up form
NameAlBCy == <<"A","l"," ","B","."," ","C","y">>
NameDiEFo == <<"D","i"," ","E","."," ","F","o">>
NameInputs ==
    { NameAlBCy,
      NameDiEFo,
      <<" ">> \o NameAlBCy \o <<" ">>,
      <<"a","l"," ","B","."," ","C","y">>,
      <<"A","l"," ","B"," ","C","y">>,
      <<>> }
Roles == {"student", "teacher"}
PwInputs == {"", "pw1"}

\* the request of session s ends and renders msg; its locals are gone
Finish(s, msg) ==
    /\ pc' = [pc EXCEPT ![s] = "idle"]
    /\ req' = [req EXCEPT ![s] = NoReq]
    /\ out' = [session |-> s, msg |-> msg]

\* SignupSubmit with the password-confirmation branch left out
SignupSubmit_NoConfirm(s, name, role, pw, pw2) ==
    /\ pc[s] = "idle"
    /\ ~session[s].logged_in
    /\ IF name = <<>> \/ pw = "" THEN Finish(s, MsgFill)
       ELSE IF ~MatchesNamePattern(Strip(name)) THEN Finish(s, MsgNameFormat)
       ELSE IF user_exists(Strip(name)) THEN Finish(s, MsgUserExists)
       ELSE /\ pc' = [pc EXCEPT ![s] = "create_user"]
            /\ req' = [req EXCEPT ![s] =
                         [NoReq EXCEPT !.op = "signup", !.name = name,
                                       !.role = role, !.pw = pw, !.pw2 = pw2]]
            /\ UNCHANGED out
    /\ UNCHANGED <<tables, session, sliders, api_key>>

\* the form handler up to and including the user_exists query
SignupSubmit(s, name, role, pw, pw2) ==
    /\ pc[s] = "idle"
    /\ ~session[s].logged_in
    /\ IF name = <<>> \/ pw = "" THEN Finish(s, MsgFill)
       ELSE IF ~MatchesNamePattern(Strip(name)) THEN Finish(s, MsgNameFormat)
       ELSE IF pw # pw2 THEN Finish(s, MsgPwMismatch)
       ELSE IF user_exists(Strip(name)) THEN Finish(s, MsgUserExists)
       ELSE /\ pc' = [pc EXCEPT ![s] = "create_user"]
            /\ req' = [req EXCEPT ![s] =
                         [NoReq EXCEPT !.op = "signup", !.name = name,
                                       !.role = role, !.pw = pw, !.pw2 = pw2]]
            /\ UNCHANGED out
    /\ UNCHANGED <<tables, session, sliders, api_key>>

\* create_user on a users table whose name column is not UNIQUE
create_user_NoUnique(s) ==
    /\ pc[s] = "create_user"
    /\ users' = Append(users,
             [id |-> NextRowId(users), name |-> Strip(req[s].name),
              role |-> req[s].role, password |-> hash_pw(req[s].pw)])
    /\ Finish(s, MsgAccountCreated)
    /\ UNCHANGED <<survey_results, classes, class_members, class_lessons,
                   lessons, session, sliders, api_key>>

\* create_user(name.strip(), role, pw): the INSERT under the UNIQUE(name)
\* constraint of the users table
create_user(s) ==
    /\ pc[s] = "create_user"
    /\ LET name == Strip(req[s].name)
       IN  IF user_exists(name)
           THEN /\ Finish(s, ExcIntegrity)
                /\ UNCHANGED users
           ELSE /\ users' = Append(users,
                        [id |-> NextRowId(users), name |-> name,
                         role |-> req[s].role, password |-> hash_pw(req[s].pw)])
                /\ Finish(s, MsgAccountCreated)
    /\ UNCHANGED <<survey_results, classes, class_members, class_lessons,
                   lessons, session, sliders, api_key>>

---------------------------------------------------------------------------
(* Log in (landing_ui, "Log in" form) and log out (sidebar button). *)

MsgEnterNamePw == "Enter name and password."
MsgLoginOk == "Login successful."
MsgInvalidLogin == "Invalid credentials or name format."

\* validate_user(name, pw): (id, role) of the users row with that name when
\* its stored hash equals hash_pw(pw), else (None, None), written here as
\* uid 0 and role "None"
validate_user(name, pw) ==
    LET idx == {i \in 1..Len(users) : users[i].name = name}
    IN  IF idx = {} THEN [uid |-> 0, role |-> "None"]
        ELSE LET row == users[CHOOSE i \in idx : \A j \in idx : i <= j]
             IN  IF row.password = hash_pw(pw)
                 THEN [uid |-> row.id, role |-> row.role]
                 ELSE [uid |-> 0, role |-> "None"]

\* the log-in form handler with a validate_user that does not compare the
\* password
LoginSubmit_AnyPassword(s, name, pw) ==
    /\ pc[s] = "idle"
    /\ ~session[s].logged_in
    /\ IF name = <<>> \/ pw = ""
       THEN /\ Finish(s, MsgEnterNamePw)
            /\ UNCHANGED session
       ELSE IF user_exists(Strip(name))
       THEN /\ session' = [session EXCEPT ![s] =
                   [user_id |-> users[CHOOSE i \in 1..Len(users) :
                                        users[i].name = Strip(name)].id,
                    user_name |-> Strip(name),
                    user_role |-> users[CHOOSE i \in 1..Len(users) :
                                          users[i].name = Strip(name)].role,
                    logged_in |-> TRUE, page |-> "app"]]
            /\ Finish(s, MsgLoginOk)
       ELSE /\ Finish(s, MsgInvalidLogin)
            /\ UNCHANGED session
    /\ UNCHANGED <<tables, sliders, api_key>>

\* the log-in form handler: on success the session fields are set and the
\* script is run again, now inside the application
LoginSubmit(s, name, pw) ==
    /\ pc[s] = "idle"
    /\ ~session[s].logged_in
    /\ IF name = <<>> \/ pw = ""
       THEN /\ Finish(s, MsgEnterNamePw)
            /\ UNCHANGED session
       ELSE LET v == validate_user(Strip(name), pw)
            IN  IF v.uid # 0
                THEN /\ session' = [session EXCEPT ![s] =
                            [user_id |-> v.uid, user_name |-> Strip(name),
                             user_role |-> v.role, logged_in |-> TRUE,
                             page |-> "app"]]
                     /\ Finish(s, MsgLoginOk)
                ELSE /\ Finish(s, MsgInvalidLogin)
                     /\ UNCHANGED session
    /\ UNCHANGED <<tables, sliders, api_key>>

\* "Log out" (student_pages and teacher_pages alike): the five session
\* fields are deleted, page is set to "auth" and the script is run again,
\* where the missing fields are initialised to None and main shows the
\* landing page without a message
Logout(s) ==
    /\ pc[s] = "idle"
    /\ session[s].logged_in
    /\ session' = [session EXCEPT ![s] = LoggedOut]
    /\ out' = [session |-> s, msg |-> ""]
    /\ UNCHANGED <<tables, sliders, api_key, pc, req>>

---------------------------------------------------------------------------
(* Classes: create_class and join_class_by_code. *)

\* characters of a class code
CodeLen == 6

MsgEnterClassName == "Enter a class name."
MsgClassCreated == "Class created. Share this code with students."
MsgInvalidCode == "Invalid class code."
MsgAlreadyMember == "Already a member."
MsgJoined == "Joined successfully."

\* ''.join(random.choices(string.ascii_uppercase + string.digits, k=6)):
\* the k-th of the codes the model lets the generator draw
\* ("ABCDEF", "BCDEFG", ...)
DrawCode(k) ==
    [i \in 1..CodeLen |-> CodeAlphabet[((k + i - 2) % Len(CodeAlphabet)) + 1]]

DrawnCodes == {DrawCode(k) : k \in 1..NumCodes}

ClassNameInputs == {"", "Algebra I", "Biology", "Chemistry"}

\* codes typed into "Join class by code"
CodeInputs ==
    DrawnCodes \cup { <<" ">> \o DrawCode(1) \o <<" ">>,
                      <<"Z","Z","Z","Z","Z","9">>,
                      <<>> }

\* a teacher page is shown to every logged-in session whose role is not
\* "student" (main)
OnTeacherPages(s) == session[s].logged_in /\ session[s].user_role # "student"
OnStudentPages(s) == session[s].logged_in /\ session[s].user_role = "student"

\* create_class on a classes table whose code column is not UNIQUE
CreateClass_NoUnique(s, cname, k) ==
    /\ pc[s] = "idle"
    /\ OnTeacherPages(s)
    /\ IF cname = ""
       THEN /\ Finish(s, MsgEnterClassName)
            /\ UNCHANGED classes
       ELSE /\ classes' = Append(classes,
                     [id |-> NextRowId(classes),
                      teacher_id |-> session[s].user_id,
                      name |-> cname, code |-> DrawCode(k)])
            /\ Finish(s, MsgClassCreated)
    /\ UNCHANGED <<users, survey_results, class_members, class_lessons, lessons, session, sliders, api_key>>

\* "Create" button: create_class(user_id, cname) with the k-th drawn code;
\* the INSERT runs under the UNIQUE(code) constraint of the classes table
CreateClass(s, cname, k) ==
    /\ pc[s] = "idle"
    /\ OnTeacherPages(s)
    /\ IF cname = ""
       THEN /\ Finish(s, MsgEnterClassName)
            /\ UNCHANGED classes
       ELSE IF \E i \in 1..Len(classes) : classes[i].code = DrawCode(k)
       THEN /\ Finish(s, ExcIntegrity)
            /\ UNCHANGED classes
       ELSE /\ classes' = Append(classes,
                     [id |-> NextRowId(classes),
                      teacher_id |-> session[s].user_id,
                      name |-> cname, code |-> DrawCode(k)])
            /\ Finish(s, MsgClassCreated)
    /\ UNCHANGED <<users, survey_results, class_members, class_lessons, lessons, session, sliders, api_key>>

\* SELECT id FROM classes WHERE code=? ... fetchone(): the id of the first
\* matching row, 0 when there is none
ClassIdByCode(code) ==
    LET idx == {i \in 1..Len(classes) : classes[i].code = code}
    IN  IF idx = {} THEN 0
        ELSE classes[CHOOSE i \in idx : \A j \in idx : i <= j].id

\* SELECT id FROM class_members WHERE class_id=? AND student_id=?
IsMember(class_id, student_id) ==
    \E i \in 1..Len(class_members) :
        /\ class_members[i].class_id = class_id
        /\ class_members[i].student_id = student_id

\* join_class_by_code without the early return for an unknown code
JoinLookup_NoReturn(s, code) ==
    /\ pc[s] = "idle"
    /\ OnStudentPages(s)
    /\ pc' = [pc EXCEPT ![s] = "join_check"]
    /\ req' = [req EXCEPT ![s] =
                 [NoReq EXCEPT !.op = "join",
                               !.class_id = ClassIdByCode(Strip(code))]]
    /\ UNCHANGED <<tables, session, sliders, api_key, out>>

\* "Join" button: join_class_by_code(user_id, code.strip()), first query
JoinLookup(s, code) ==
    /\ pc[s] = "idle"
    /\ OnStudentPages(s)
    /\ LET class_id == ClassIdByCode(Strip(code))
       IN  IF class_id = 0
           THEN Finish(s, MsgInvalidCode)
           ELSE /\ pc' = [pc EXCEPT ![s] = "join_check"]
                /\ req' = [req EXCEPT ![s] =
                             [NoReq EXCEPT !.op = "join", !.class_id = class_id]]
                /\ UNCHANGED out
    /\ UNCHANGED <<tables, session, sliders, api_key>>

\* join_class_by_code without the "check already member" query
JoinCheck_NoCheck(s) ==
    /\ pc[s] = "join_check"
    /\ pc' = [pc EXCEPT ![s] = "join_insert"]
    /\ UNCHANGED <<tables, session, sliders, api_key, req, out>>

\* join_class_by_code, second query: "check already member"
JoinCheck(s) ==
    /\ pc[s] = "join_check"
    /\ IF IsMember(req[s].class_id, session[s].user_id)
       THEN Finish(s, MsgAlreadyMember)
       ELSE /\ pc' = [pc EXCEPT ![s] = "join_insert"]
            /\ UNCHANGED <<req, out>>
    /\ UNCHANGED <<tables, session, sliders, api_key>>

\* join_class_by_code, the INSERT into class_members (no constraint)
JoinInsert(s) ==
    /\ pc[s] = "join_insert"
    /\ class_members' = Append(class_members,
            [id |-> NextRowId(class_members),
             class_id |-> req[s].class_id,
             student_id |-> session[s].user_id])
    /\ Finish(s, MsgJoined)
    /\ UNCHANGED <<users, survey_results, classes, class_lessons, lessons, session, sliders, api_key>>

---------------------------------------------------------------------------
(* MI survey (student_pages, "MI Survey"). *)

\* the keys of the questions dict, in insertion order
CategorySeq == <<"Linguistic", "Logical-Mathematical", "Visual-Spatial",
                 "Bodily-Kinesthetic", "Musical", "Interpersonal",
                 "Intrapersonal">>
Categories == {CategorySeq[i] : i \in 1..Len(CategorySeq)}
QuestionsPerCategory == 5
Ratings == 1..5

MsgSurveySaved == "Survey saved."

RECURSIVE SumSeq(_)
\* sum(vals)
SumSeq(q) == IF q = <<>> THEN 0 ELSE Head(q) + SumSeq(Tail(q))

RECURSIVE MaxKey_LastWins(_, _, _)
\* max() that lets a later key of equal score replace the current one
MaxKey_LastWins(scores, keys, best) ==
    IF keys = <<>> THEN best
    ELSE MaxKey_LastWins(scores, Tail(keys),
             IF scores[Head(keys)] >= scores[best] THEN Head(keys) ELSE best)

RECURSIVE MaxKey(_, _, _)
\* max(mi_scores, key=mi_scores.get): one pass over the keys in dict order,
\* a key replaces the current maximum only when its score is greater
MaxKey(scores, keys, best) ==
    IF keys = <<>> THEN best
    ELSE MaxKey(scores, Tail(keys),
             IF scores[Head(keys)] > scores[best] THEN Head(keys) ELSE best)

\* mi_scores = {mi: sum(vals) for mi, vals in responses.items()}
MiScores(responses) == [c \in Categories |-> SumSeq(responses[c])]

Dominant(mi_scores) == MaxKey(mi_scores, Tail(CategorySeq), Head(CategorySeq))

\* slider values: for each category the ratings of its five questions
Uniform(r) == [c \in Categories |-> [q \in 1..QuestionsPerCategory |-> r]]

\* the sliders start at 3
DefaultSliders == Uniform(3)

\* the student moves the sliders of the survey page to responses
MoveSliders(s, responses) ==
    /\ pc[s] = "idle"
    /\ OnStudentPages(s)
    /\ sliders' = [sliders EXCEPT ![s] = responses]
    /\ UNCHANGED <<tables, session, api_key, pc, req, out>>

\* "Submit Survey": save_survey(user_id, mi_scores, dominant) with the
\* slider values of the session.  mi_scores is stored as the JSON text of
\* the dict, which determines and is determined by the mapping stored here.
SubmitSurvey(s) ==
    /\ pc[s] = "idle"
    /\ OnStudentPages(s)
    /\ Len(survey_results) < MaxSurveys
    /\ survey_results' = Append(survey_results,
            [id |-> NextRowId(survey_results),
             user_id |-> session[s].user_id,
             mi_scores |-> MiScores(sliders[s]),
             dominant_mi |-> Dominant(MiScores(sliders[s]))])
    /\ Finish(s, MsgSurveySaved)
    /\ UNCHANGED <<users, classes, class_members, class_lessons, lessons, session, sliders, api_key>>

\* get_latest_dominant_mi with ORDER BY id ASC
get_latest_dominant_mi_Asc(user_id) ==
    LET idx == {i \in 1..Len(survey_results) :
                    survey_results[i].user_id = user_id}
    IN  IF idx = {} THEN "None"
        ELSE survey_results[CHOOSE i \in idx : \A j \in idx :
                 survey_results[j].id >= survey_results[i].id].dominant_mi

\* get_latest_dominant_mi(user_id): SELECT dominant_mi ... WHERE user_id=?
\* ORDER BY id DESC LIMIT 1; "None" when there is no row
get_latest_dominant_mi(user_id) ==
    LET idx == {i \in 1..Len(survey_results) :
                    survey_results[i].user_id = user_id}
    IN  IF idx = {} THEN "None"
        ELSE survey_results[CHOOSE i \in idx : \A j \in idx :
                 survey_results[j].id <= survey_results[i].id].dominant_mi

---------------------------------------------------------------------------
(* Tailoring and assignment (generate_tailored_lesson, teacher_pages,      *)
(* "Assign Lesson").                                                       *)

NoKeyExcerptLen == 200
FallbackExcerptLen == 400

MsgUploadFile == "Upload a file to assign."
MsgNoText == "No extractable text found in the uploaded file."
MsgNoStudents == "No students in this class to assign to."
MsgAssigned == "Assigned tailored lessons to all students in class."
\* st.error(f"AI generation failed: {e}") in generate_tailored_lesson
MsgAIFailed == "AI generation failed"

\* text[:n]
Take(text, n) == SubSeq(text, 1, IF Len(text) < n THEN Len(text) ELSE n)

\* text.replace("\n", " ")
ReplaceNewlines(text) ==
    [i \in 1..Len(text) |-> IF text[i] = "\n" THEN " " ELSE text[i]]

\* generate_tailored_lesson whose local fallback keeps the newlines of the
\* excerpt
generate_tailored_lesson_NoFlatten(text, mi_type, call) ==
    IF call = "nokey"
    THEN <<"[Tailored for ", mi_type, "] (No OpenAI key configured)\n\n",
           "Key points:\n- ">>
         \o (IF text # <<>> THEN Take(text, NoKeyExcerptLen)
                            ELSE <<"Main idea placeholder">>)
         \o <<"\n\nPractice:\n1) ...\n2) ...">>
    ELSE IF call = "ok"
    THEN <<"model response">>
    ELSE <<"[Tailored for ", mi_type, "] (AI fallback)\n\n">>
         \o (IF text # <<>> THEN Take(text, FallbackExcerptLen)
                            ELSE <<"Content not available.">>)

\* generate_tailored_lesson(text, mi_type).  call is the fate of the
\* external request: "nokey" (no request is made), "ok" or "failed".
\* The result is the sequence of the pieces the code concatenates.
generate_tailored_lesson(text, mi_type, call) ==
    IF call = "nokey"
    THEN <<"[Tailored for ", mi_type, "] (No OpenAI key configured)\n\n",
           "Key points:\n- ">>
         \o (IF text # <<>> THEN ReplaceNewlines(Take(text, NoKeyExcerptLen))
                            ELSE <<"Main idea placeholder">>)
         \o <<"\n\nPractice:\n1) ...\n2) ...">>
    ELSE IF call = "ok"
    THEN <<"model response">>
    ELSE <<"[Tailored for ", mi_type, "] (AI fallback)\n\n">>
         \o (IF text # <<>> THEN Take(text, FallbackExcerptLen)
                            ELSE <<"Content not available.">>)

\* fates the external request can have under the configured key
Calls == IF api_key THEN {"ok", "failed"} ELSE {"nokey"}

\* a text of n characters: the letters and digits in turn, with a newline
\* in every seventh place
SampleText(n) ==
    [i \in 1..n |-> IF i % 7 = 0 THEN "\n"
                    ELSE CodeAlphabet[((i - 1) % Len(CodeAlphabet)) + 1]]

\* texts passed to generate_tailored_lesson: the empty text and texts
\* around the two excerpt lengths
TailorTexts ==
    {SampleText(n) : n \in {0, 1, NoKeyExcerptLen - 1, NoKeyExcerptLen,
                            NoKeyExcerptLen + 1, FallbackExcerptLen,
                            FallbackExcerptLen + 1}}

\* the empty text and texts around the length of the longer excerpt
FallbackTexts ==
    {SampleText(n) : n \in {0, 1, FallbackExcerptLen, FallbackExcerptLen + 1}}

\* intelligence types passed to generate_tailored_lesson
MiTypes == {"General", "Linguistic", "Musical"}

\* a call generate_tailored_lesson(text, mi_type) on behalf of session s:
\* the caller keeps the arguments and the returned text; a failed request
\* renders the notice
TailorCall(s, text, mi_type, call) ==
    /\ pc[s] = "idle"
    /\ call \in Calls
    /\ req' = [req EXCEPT ![s] =
                 [NoReq EXCEPT !.op = "tailor", !.text = text,
                     !.dominant = mi_type,
                     !.tailored = generate_tailored_lesson(text, mi_type, call)]]
    /\ out' = IF call = "failed" THEN [session |-> s, msg |-> MsgAIFailed]
              ELSE [session |-> s, msg |-> ""]
    /\ UNCHANGED <<tables, session, sliders, api_key, pc>>

---------------------------------------------------------------------------
(* Lesson generator (student_pages, "Lesson Generator"). *)

MsgProvideTopic == "Provide a topic or upload a file."
MsgLessonSaved == "Lesson generated and saved to your library."
DefaultTopic == <<"Generated Lesson">>

\* topics typed into "Lesson topic" (texts, since the topic is the source
\* text when no file is uploaded)
GenTopicInputs == { <<>>, <<"A", "r", "t">> }

\* "Generate & Save" up to and including get_latest_dominant_mi; content
\* is the text extracted from the optional upload (<<>> without one)
GenerateLookup(s, topic, subject, content) ==
    /\ pc[s] = "idle"
    /\ OnStudentPages(s)
    /\ Len(lessons) < MaxLessonRows
    /\ IF topic = <<>> /\ content = <<>>
       THEN Finish(s, MsgProvideTopic)
       ELSE /\ pc' = [pc EXCEPT ![s] = "generate_save"]
            /\ LET d == get_latest_dominant_mi(session[s].user_id)
               IN  req' = [req EXCEPT ![s] =
                      [NoReq EXCEPT !.op = "generate",
                          !.gtopic = IF topic = <<>> THEN DefaultTopic ELSE topic,
                          !.subject = subject,
                          !.text = IF content # <<>> THEN content ELSE topic,
                          !.dominant = IF d = "None" THEN "General" ELSE d]]
            /\ UNCHANGED out
    /\ UNCHANGED <<tables, session, sliders, api_key>>

\* save_lesson with an UPDATE of the user's latest lesson in place of the
\* INSERT, when the user has a lesson
GenerateSave_Overwrite(s, call) ==
    /\ pc[s] = "generate_save"
    /\ call \in Calls
    /\ LET row == [id |-> NextRowId(lessons),
                   user_id |-> session[s].user_id,
                   topic |-> req[s].gtopic, subject |-> req[s].subject,
                   mi_type |-> req[s].dominant,
                   content |-> generate_tailored_lesson(req[s].text,
                                                        req[s].dominant, call)]
           mine == {i \in 1..Len(lessons) : lessons[i].user_id = session[s].user_id}
       IN  lessons' =
             IF mine = {} THEN Append(lessons, row)
             ELSE [lessons EXCEPT ![CHOOSE i \in mine : \A j \in mine : j <= i] =
                      [row EXCEPT !.id = @ - 1]]
    /\ Finish(s, MsgLessonSaved)
    /\ UNCHANGED <<users, survey_results, classes, class_members, class_lessons,
                   session, sliders, api_key>>

\* the rest of "Generate & Save": generate_tailored_lesson(source_text,
\* dominant) and save_lesson
GenerateSave(s, call) ==
    /\ pc[s] = "generate_save"
    /\ call \in Calls
    /\ lessons' = Append(lessons,
            [id |-> NextRowId(lessons),
             user_id |-> session[s].user_id,
             topic |-> req[s].gtopic, subject |-> req[s].subject,
             mi_type |-> req[s].dominant,
             content |-> generate_tailored_lesson(req[s].text,
                                                  req[s].dominant, call)])
    /\ Finish(s, MsgLessonSaved)
    /\ UNCHANGED <<users, survey_results, classes, class_members, class_lessons,
                   session, sliders, api_key>>

---------------------------------------------------------------------------
(* Assignment (teacher_pages, "Assign Lesson"). *)

\* get_teacher_classes(teacher_id): the ids of the teacher's classes
get_teacher_classes(teacher_id) ==
    {classes[i].id : i \in {j \in 1..Len(classes) :
                               classes[j].teacher_id = teacher_id}}

RECURSIVE StudentsOf(_, _)
StudentsOf(members, class_id) ==
    IF members = <<>> THEN <<>>
    ELSE (IF /\ Head(members).class_id = class_id
             /\ \E i \in 1..Len(users) : users[i].id = Head(members).student_id
          THEN <<Head(members).student_id>> ELSE <<>>)
         \o StudentsOf(Tail(members), class_id)

\* get_students_in_class(class_id): users JOIN class_members, one result
\* row per membership row of the class (the u.id column; rows taken in
\* membership order)
get_students_in_class(class_id) == StudentsOf(class_members, class_id)

\* uploaded files: the text extraction yields (<<>> also stands for a file
\* that cannot be read, where the handler sets text = "")
TextInputs == { <<>>, <<" ", "\n">>, <<"F", "r", "\n", "a">> }
TopicInputs == {""}

\* how each message of the assignment form is rendered: st.error, st.info
\* or st.success
Rendering(msg) ==
    IF msg \in {MsgUploadFile, MsgNoText} THEN "error"
    ELSE IF msg = MsgNoStudents THEN "info"
    ELSE IF msg = MsgAssigned THEN "success"
    ELSE "other"

\* "Assign to class" without the test of the extracted text
AssignStart_NoTextCheck(s, class_id, uploaded, text, topic) ==
    /\ pc[s] = "idle"
    /\ OnTeacherPages(s)
    /\ class_id \in get_teacher_classes(session[s].user_id)
    /\ Len(class_lessons) < MaxLessonRows
    /\ IF ~uploaded THEN Finish(s, MsgUploadFile)
       ELSE IF get_students_in_class(class_id) = <<>> THEN Finish(s, MsgNoStudents)
       ELSE /\ pc' = [pc EXCEPT ![s] = "assign_lookup"]
            /\ req' = [req EXCEPT ![s] =
                  [NoReq EXCEPT !.op = "assign", !.class_id = class_id,
                      !.text = text,
                      !.topic = IF topic = "" THEN "Uploaded Lesson" ELSE topic,
                      !.subject = "General",
                      !.students = get_students_in_class(class_id),
                      !.i = 1,
                      !.base = Len(class_lessons)]]
            /\ UNCHANGED out
    /\ UNCHANGED <<tables, session, sliders, api_key>>

\* "Assign to class" up to and including get_students_in_class
AssignStart(s, class_id, uploaded, text, topic) ==
    /\ pc[s] = "idle"
    /\ OnTeacherPages(s)
    /\ class_id \in get_teacher_classes(session[s].user_id)
    /\ Len(class_lessons) < MaxLessonRows
    /\ IF ~uploaded THEN Finish(s, MsgUploadFile)
       ELSE IF Strip(text) = <<>> THEN Finish(s, MsgNoText)
       ELSE IF get_students_in_class(class_id) = <<>> THEN Finish(s, MsgNoStudents)
       ELSE /\ pc' = [pc EXCEPT ![s] = "assign_lookup"]
            /\ req' = [req EXCEPT ![s] =
                  [NoReq EXCEPT !.op = "assign", !.class_id = class_id,
                      !.text = text,
                      !.topic = IF topic = "" THEN "Uploaded Lesson" ELSE topic,
                      !.subject = "General",
                      !.students = get_students_in_class(class_id),
                      !.i = 1,
                      !.base = Len(class_lessons),
                      !.enrolled = {class_members[k].student_id :
                                      k \in {j \in 1..Len(class_members) :
                                          class_members[j].class_id = class_id}}]]
            /\ UNCHANGED out
    /\ UNCHANGED <<tables, session, sliders, api_key>>

\* loop body, first statement: dominant = get_latest_dominant_mi(sid) or "General"
AssignLookup(s) ==
    /\ pc[s] = "assign_lookup"
    /\ LET d == get_latest_dominant_mi(req[s].students[req[s].i])
       IN  req' = [req EXCEPT ![s].dominant = IF d = "None" THEN "General" ELSE d,
                              ![s].nsurv = Append(@, Len(survey_results))]
    /\ pc' = [pc EXCEPT ![s] = "assign_save"]
    /\ UNCHANGED <<tables, session, sliders, api_key, out>>

\* the loop body with a failed model request ending the assignment
AssignSave_StopOnFailure(s, call) ==
    /\ pc[s] = "assign_save"
    /\ call \in Calls
    /\ IF call = "failed"
       THEN /\ Finish(s, MsgAIFailed)
            /\ UNCHANGED class_lessons
       ELSE /\ class_lessons' = Append(class_lessons,
                   [id |-> NextRowId(class_lessons),
                    class_id |-> req[s].class_id,
                    student_id |-> req[s].students[req[s].i],
                    topic |-> req[s].topic, subject |-> req[s].subject,
                    mi_type |-> req[s].dominant,
                    content |-> generate_tailored_lesson(req[s].text,
                                                         req[s].dominant, call)])
            /\ IF req[s].i = Len(req[s].students)
               THEN Finish(s, MsgAssigned)
               ELSE /\ pc' = [pc EXCEPT ![s] = "assign_lookup"]
                    /\ req' = [req EXCEPT ![s].i = @ + 1]
                    /\ UNCHANGED out
    /\ UNCHANGED <<users, survey_results, classes, class_members, lessons, session, sliders, api_key>>

\* loop body, rest: generate_tailored_lesson, save_class_lesson, next student
AssignSave(s, call) ==
    /\ pc[s] = "assign_save"
    /\ call \in Calls
    /\ class_lessons' = Append(class_lessons,
            [id |-> NextRowId(class_lessons),
             class_id |-> req[s].class_id,
             student_id |-> req[s].students[req[s].i],
             topic |-> req[s].topic, subject |-> req[s].subject,
             mi_type |-> req[s].dominant,
             content |-> generate_tailored_lesson(req[s].text, req[s].dominant, call)])
    /\ IF req[s].i = Len(req[s].students)
       THEN Finish(s, MsgAssigned)
       ELSE /\ pc' = [pc EXCEPT ![s] = "assign_lookup"]
            /\ req' = [req EXCEPT ![s].i = @ + 1]
            /\ out' = IF call = "failed" THEN [session |-> s, msg |-> MsgAIFailed]
                      ELSE out
    /\ UNCHANGED <<users, survey_results, classes, class_members, lessons, session, sliders, api_key>>

---------------------------------------------------------------------------
(* Sign-up specification: an empty store, every session on the landing     *)
(* page.                                                                   *)

InitAuth ==
    /\ users = <<>>
    /\ api_key = FALSE
    /\ survey_results = <<>>
    /\ classes = <<>>
    /\ class_members = <<>>
    /\ class_lessons = <<>>
    /\ lessons = <<>>
    /\ session = [s \in Sessions |-> LoggedOut]
    /\ sliders = [s \in Sessions |-> DefaultSliders]
    /\ pc = [s \in Sessions |-> "idle"]
    /\ req = [s \in Sessions |-> NoReq]
    /\ out = NoOut

NextAuth ==
    \E s \in Sessions \ {TeacherSession} :
        \/ \E name \in NameInputs, role \in Roles, pw \in PwInputs, pw2 \in PwInputs :
               SignupSubmit(s, name, role, pw, pw2)
        \/ create_user(s)

SpecAuth == InitAuth /\ [][NextAuth]_vars

---------------------------------------------------------------------------
(* Class specification: the store holds a teacher and two students who     *)
(* signed up before; session 0 is logged in as the teacher, the others as  *)
(* students (two sessions may belong to the same student).                 *)

NameGuHIx == <<"G","u"," ","H","."," ","I","x">>

RegisteredUsers ==
    << [id |-> 1, name |-> NameAlBCy, role |-> "teacher", password |-> hash_pw("pw1")],
       [id |-> 2, name |-> NameDiEFo, role |-> "student", password |-> hash_pw("pw1")],
       [id |-> 3, name |-> NameGuHIx, role |-> "student", password |-> hash_pw("pw1")] >>

LoggedInAs(u) ==
    [user_id |-> RegisteredUsers[u].id, user_name |-> RegisteredUsers[u].name,
     user_role |-> RegisteredUsers[u].role, logged_in |-> TRUE, page |-> "app"]

\* slider settings used outside the survey specification
MusicalHigh ==
    [DefaultSliders EXCEPT !["Musical"] = [q \in 1..QuestionsPerCategory |-> 5]]
LogicalHigh ==
    [DefaultSliders EXCEPT !["Logical-Mathematical"] = <<5, 4, 5, 4, 5>>]

\* odd sessions left the sliders alone, even sessions raised "Musical"
PresetSliders ==
    [s \in Sessions |-> IF s % 2 = 0 THEN MusicalHigh ELSE DefaultSliders]

LoggedInSessions ==
    {f \in [Sessions -> {LoggedInAs(1), LoggedInAs(2), LoggedInAs(3)}] :
        /\ f[TeacherSession] = LoggedInAs(1)
        /\ f[1] = LoggedInAs(2)
        /\ \A s \in Sessions \ {TeacherSession} :
               f[s] \in {LoggedInAs(2), LoggedInAs(3)}}

\* classes the teacher created before
ExistingClasses ==
    << [id |-> 1, teacher_id |-> 1, name |-> "Algebra I", code |-> DrawCode(1)],
       [id |-> 2, teacher_id |-> 1, name |-> "Biology", code |-> DrawCode(2)] >>

InitStore(key, cls) ==
    /\ users = RegisteredUsers
    /\ api_key = key
    /\ survey_results = <<>>
    /\ classes = cls
    /\ class_members = <<>>
    /\ class_lessons = <<>>
    /\ lessons = <<>>
    /\ session \in LoggedInSessions
    /\ sliders = PresetSliders
    /\ pc = [s \in Sessions |-> "idle"]
    /\ req = [s \in Sessions |-> NoReq]
    /\ out = NoOut

\* class creation alone, from a store without classes
InitCreate == InitStore(FALSE, <<>>)

NextCreate ==
    \E s \in Sessions, cname \in ClassNameInputs, k \in 1..NumCodes :
        CreateClass(s, cname, k)

SpecCreate == InitCreate /\ [][NextCreate]_vars

\* joining, with the statements of concurrent requests interleaved
InitJoin == InitStore(FALSE, ExistingClasses)

JoinActions(s) ==
    \/ \E code \in CodeInputs : JoinLookup(s, code)
    \/ JoinCheck(s)
    \/ JoinInsert(s)

NextJoin == \E s \in Sessions : JoinActions(s)

SpecJoin == InitJoin /\ [][NextJoin]_vars

\* the same requests, each run to its end before the next one starts
NextSeq ==
    \E s \in Sessions :
        /\ \A t \in Sessions \ {s} : pc[t] = "idle"
        /\ JoinActions(s)

SpecSeq == InitJoin /\ [][NextSeq]_vars

---------------------------------------------------------------------------
(* Assignment specification: as the class specification, after the teacher *)
(* created the class "Algebra I"; students join it, submit surveys, and    *)
(* the teacher assigns uploaded documents.                                 *)

InitAssign == \E key \in BOOLEAN : InitStore(key, SubSeq(ExistingClasses, 1, 1))

NextAssign ==
    \E s \in Sessions :
        \/ JoinLookup(s, DrawCode(1))
        \/ JoinCheck(s)
        \/ JoinInsert(s)
        \/ SubmitSurvey(s)
        \/ \E uploaded \in BOOLEAN, text \in TextInputs, topic \in TopicInputs :
               AssignStart(s, 1, uploaded, text, topic)
        \/ AssignLookup(s)
        \/ \E call \in {"nokey", "ok", "failed"} : AssignSave(s, call)

SpecAssign == InitAssign /\ [][NextAssign]_vars

---------------------------------------------------------------------------
(* Assignment form specification: the teacher has two classes; "Biology"   *)
(* has no students, "Algebra I" has none, one or two; only the assignment  *)
(* form is used.                                                           *)

\* class_members rows of students who joined "Algebra I" before
EarlierMembers ==
    << [id |-> 1, class_id |-> 1, student_id |-> 2],
       [id |-> 2, class_id |-> 1, student_id |-> 3] >>

InitAssignForm ==
    /\ users = RegisteredUsers
    /\ api_key \in BOOLEAN
    /\ survey_results = <<>>
    /\ classes = ExistingClasses
    /\ class_members \in {SubSeq(EarlierMembers, 1, n) : n \in 0..Len(EarlierMembers)}
    /\ class_lessons = <<>>
    /\ lessons = <<>>
    /\ session \in LoggedInSessions
    /\ sliders = PresetSliders
    /\ pc = [s \in Sessions |-> "idle"]
    /\ req = [s \in Sessions |-> NoReq]
    /\ out = NoOut

NextAssignForm ==
    \E s \in Sessions :
        \/ \E class_id \in {ExistingClasses[k].id : k \in 1..Len(ExistingClasses)},
              uploaded \in BOOLEAN, text \in TextInputs, topic \in TopicInputs :
               AssignStart(s, class_id, uploaded, text, topic)
        \/ AssignLookup(s)
        \/ \E call \in {"nokey", "ok", "failed"} : AssignSave(s, call)

SpecAssignForm == InitAssignForm /\ [][NextAssignForm]_vars

---------------------------------------------------------------------------
(* Survey specifications. *)

\* ratings of one category that the survey specification draws from: the
\* lowest and the highest row, and two different rows of equal sum
RatingRows ==
    { <<1, 1, 1, 1, 1>>, <<5, 5, 5, 5, 5>>, <<3, 3, 3, 3, 3>>, <<1, 2, 3, 4, 5>> }

\* scoring: student session 1 submits slider values drawn from RatingRows
InitSurvey ==
    /\ users = RegisteredUsers
    /\ api_key = FALSE
    /\ survey_results = <<>>
    /\ classes = <<>>
    /\ class_members = <<>>
    /\ class_lessons = <<>>
    /\ lessons = <<>>
    /\ session = [s \in Sessions |-> IF s = 1 THEN LoggedInAs(2) ELSE LoggedOut]
    /\ sliders \in {[s \in Sessions |-> IF s = 1 THEN r ELSE DefaultSliders] :
                       r \in [Categories -> RatingRows]}
    /\ pc = [s \in Sessions |-> "idle"]
    /\ req = [s \in Sessions |-> NoReq]
    /\ out = NoOut

NextSurvey == \E s \in Sessions : SubmitSurvey(s)

SpecSurvey == InitSurvey /\ [][NextSurvey]_vars

\* survey history: students move the sliders and submit, in any order
InitLatest == InitStore(FALSE, <<>>)

NextLatest ==
    \E s \in Sessions :
        \/ \E responses \in {DefaultSliders, MusicalHigh, LogicalHigh} :
               MoveSliders(s, responses)
        \/ SubmitSurvey(s)

SpecLatest == InitLatest /\ [][NextLatest]_vars

---------------------------------------------------------------------------
(* Forms specification: session 1 is a visitor on the landing page, each   *)
(* other session is a visitor or the student "Di E. Fo" on the class page. *)

InitForms ==
    /\ users = RegisteredUsers
    /\ api_key = FALSE
    /\ survey_results = <<>>
    /\ classes = ExistingClasses
    /\ class_members = <<>>
    /\ class_lessons = <<>>
    /\ lessons = <<>>
    /\ session \in {f \in [Sessions -> {LoggedOut, LoggedInAs(1), LoggedInAs(2)}] :
                       /\ f[TeacherSession] = LoggedInAs(1)
                       /\ f[1] = LoggedOut
                       /\ \A s \in Sessions \ {TeacherSession, 1} :
                              f[s] \in {LoggedOut, LoggedInAs(2)}}
    /\ sliders = PresetSliders
    /\ pc = [s \in Sessions |-> "idle"]
    /\ req = [s \in Sessions |-> NoReq]
    /\ out = NoOut

\* names typed by the visitors: one that is not registered, one that is,
\* one that is badly formed, and none
NameJoKLe == <<"J","o"," ","K","."," ","L","e">>
FormsNameInputs ==
    {NameJoKLe, NameDiEFo, <<"a","l"," ","B","."," ","C","y">>, <<>>}

NextForms ==
    \E s \in Sessions :
        \/ \E name \in FormsNameInputs, role \in Roles,
              pw \in PwInputs, pw2 \in PwInputs :
               SignupSubmit(s, name, role, pw, pw2)
        \/ create_user(s)
        \/ JoinActions(s)

SpecForms == InitForms /\ [][NextForms]_vars

---------------------------------------------------------------------------
(* Store specification: every operation that writes to the store, and log  *)
(* in and log out, one request after the other.  The store starts with the *)
(* registered users and the class "Algebra I"; nobody is logged in.  The    *)
(* teacher logs in from session 0, the student "Di E. Fo" from session 1.   *)

InitLog ==
    /\ users = RegisteredUsers
    /\ api_key = FALSE
    /\ survey_results = <<>>
    /\ lessons = <<>>
    /\ classes = SubSeq(ExistingClasses, 1, 1)
    /\ class_members = <<>>
    /\ class_lessons = <<>>
    /\ session = [s \in Sessions |-> LoggedOut]
    /\ sliders = [s \in Sessions |-> DefaultSliders]
    /\ pc = [s \in Sessions |-> "idle"]
    /\ req = [s \in Sessions |-> NoReq]
    /\ out = NoOut

Operations(s) ==
    \/ SignupSubmit(s, NameJoKLe, "student", "pw1", "pw1")
    \/ create_user(s)
    \/ LoginSubmit(s, IF s = TeacherSession THEN NameAlBCy ELSE NameDiEFo, "pw1")
    \/ Logout(s)
    \/ SubmitSurvey(s)
    \/ \E topic \in GenTopicInputs : GenerateLookup(s, topic, "Science", <<>>)
    \/ \E call \in Calls : GenerateSave(s, call)
    \/ \E k \in 1..NumCodes : CreateClass(s, "Biology", k)
    \/ JoinLookup(s, DrawCode(1))
    \/ JoinCheck(s)
    \/ JoinInsert(s)
    \/ AssignStart(s, 1, TRUE, <<"F", "r", "\n", "a">>, "")
    \/ AssignLookup(s)
    \/ \E call \in Calls : AssignSave(s, call)

\* the requests come from the teacher's session and from one other session
StoreSessions == {TeacherSession, TeacherSession + 1}

NextStore ==
    \E s \in StoreSessions :
        /\ \A t \in Sessions \ {s} : pc[t] = "idle"
        /\ Operations(s)

SpecStore == InitLog /\ [][NextStore]_vars

---------------------------------------------------------------------------
(* Tailoring specifications. *)

\* documents the teacher assigns: a short one and one longer than both
\* excerpt lengths
LongTextInputs == { <<"F", "r", "\n", "a">>, SampleText(FallbackExcerptLen + 1) }

\* the teacher assigns documents to "Algebra I", which has two students,
\* with or without a configured key, while generate_tailored_lesson is
\* also called directly on behalf of session 1
InitTailor ==
    /\ users = RegisteredUsers
    /\ api_key \in BOOLEAN
    /\ survey_results = <<>>
    /\ lessons = <<>>
    /\ classes = ExistingClasses
    /\ class_members = EarlierMembers
    /\ class_lessons = <<>>
    /\ session \in LoggedInSessions
    /\ sliders = PresetSliders
    /\ pc = [s \in Sessions |-> "idle"]
    /\ req = [s \in Sessions |-> NoReq]
    /\ out = NoOut

NextTailor ==
    \/ \E s \in Sessions :
          \/ \E text \in LongTextInputs : AssignStart(s, 1, TRUE, text, "")
          \/ AssignLookup(s)
          \/ \E call \in {"nokey", "ok", "failed"} : AssignSave(s, call)
    \/ \E text \in FallbackTexts, mi_type \in MiTypes, call \in {"nokey", "ok", "failed"} :
          TailorCall(TeacherSession + 1, text, mi_type, call)

SpecTailor == InitTailor /\ [][NextTailor]_vars

\* generate_tailored_lesson alone, without a configured key, called on
\* behalf of two sessions
Callers == {TeacherSession + 1, TeacherSession + 2}

InitNoKey ==
    /\ users = RegisteredUsers
    /\ api_key = FALSE
    /\ survey_results = <<>>
    /\ lessons = <<>>
    /\ classes = ExistingClasses
    /\ class_members = EarlierMembers
    /\ class_lessons = <<>>
    /\ session \in LoggedInSessions
    /\ sliders = PresetSliders
    /\ pc = [s \in Sessions |-> "idle"]
    /\ req = [s \in Sessions |-> NoReq]
    /\ out = NoOut

NextNoKey ==
    \E s \in Callers, text \in TailorTexts, mi_type \in MiTypes :
        TailorCall(s, text, mi_type, "nokey")

SpecNoKey == InitNoKey /\ [][NextNoKey]_vars

---------------------------------------------------------------------------
(* Log-in specification: the registered users log in and out from every    *)
(* session, with right and wrong credentials, while "Jo K. Le" signs up as *)
(* a teacher with another password.                                        *)

\* names and passwords typed into the log-in form
LoginNameInputs == { NameAlBCy, <<" ">> \o NameDiEFo \o <<" ">>, NameJoKLe, <<>> }
LoginPwInputs == {"", "pw1", "pw2"}

NextLogin ==
    \E s \in Sessions :
        \/ \E name \in LoginNameInputs, pw \in LoginPwInputs : LoginSubmit(s, name, pw)
        \/ Logout(s)
        \/ SignupSubmit(s, NameJoKLe, "teacher", "pw2", "pw2")
        \/ create_user(s)

SpecLogin == InitLog /\ [][NextLogin]_vars

---------------------------------------------------------------------------
(* Sign-up properties. *)

\* the submissions of the sign-up form in the model
SignupInputs ==
    [name : NameInputs, role : Roles, pw : PwInputs, pw2 : PwInputs]

\* the conditions C3 names, but for "not registered": the name is
\* non-empty and matches the pattern, the password equals its confirmation
WellFormedAsStated ==
    UNION { IF /\ i.name # <<>>
               /\ MatchesNamePattern(Strip(i.name))
               /\ i.pw = i.pw2
            THEN {i} ELSE {} : i \in SignupInputs }

\* the same with a non-empty password
WellFormed ==
    UNION { IF i.pw # "" THEN {i} ELSE {} : i \in WellFormedAsStated }

Registered(name) == \E k \in 1..Len(users) : users[k].name = Strip(name)

Submission(r) == [name |-> r.name, role |-> r.role, pw |-> r.pw, pw2 |-> r.pw2]

\* this step adds to users exactly the row of the submission
RowCreated(name, role, pw) ==
    /\ Len(users') = Len(users) + 1
    /\ SubSeq(users', 1, Len(users)) = users
    /\ users'[Len(users')].name = Strip(name)
    /\ users'[Len(users')].role = role
    /\ users'[Len(users')].password = hash_pw(pw)

\* session s took this step
Acted(s) ==
    \/ <<pc'[s], req'[s]>> # <<pc[s], req[s]>>
    \/ (out' # out /\ out'.session = s)

\* a sign-up request creates its users row iff its submission is in good
\* and its name is not registered, and otherwise creates no row: a request
\* that ends in the form handler creates no row and was not such a
\* submission; a request goes on to the insert only with such a submission;
\* the insert adds the row iff the name is not registered by then
SignupIff(good) ==
    \A s \in Sessions : Acted(s) =>
         /\ (pc[s] = "idle" /\ pc'[s] = "idle") =>
               /\ users' = users
               /\ \A i \in good :
                     SignupSubmit(s, i.name, i.role, i.pw, i.pw2) => Registered(i.name)
         /\ (pc[s] = "idle" /\ pc'[s] = "create_user") =>
               /\ users' = users
               /\ Submission(req'[s]) \in good
               /\ ~Registered(req'[s].name)
         /\ create_user(s) =>
               IF Submission(req[s]) \in good /\ ~Registered(req[s].name)
               THEN RowCreated(req[s].name, req[s].role, req[s].pw)
               ELSE users' = users

\* C3 as stated: a users row is created iff the name is non-empty, the name
\* matches the "First M. Last" pattern, the password equals its
\* confirmation and no user with that name is registered; in every other
\* case no row is created.
C3_SignupIff_Original == [][SignupIff(WellFormedAsStated)]_vars

\* C3 amended: a users row is created iff the name and the password are
\* non-empty, the name (stripped of surrounding whitespace) matches the
\* pattern, the password equals its confirmation and no user with that
\* name is registered when the row is inserted; otherwise no row is created.
C3_SignupIff == [][SignupIff(WellFormed)]_vars

\* C3 witness: one request created its row and another was turned down
\* for an empty field
C3_Witness ==
    /\ Len(users) = 1
    /\ out.msg = MsgFill

\* C4: no two users rows have the same name, and every stored name matches
\* the "First M. Last" pattern, whatever the interleaving of sign-ups.
C4_UniqueWellFormedNames ==
    /\ \A i, j \in 1..Len(users) : (i # j) => (users[i].name # users[j].name)
    /\ \A i \in 1..Len(users) : MatchesNamePattern(users[i].name)

\* C4 witness: two sign-ups of one name both passed user_exists; one row
\* was stored and the other insert was refused
C4_Witness ==
    /\ out.msg = ExcIntegrity
    /\ Len(users) = 1

---------------------------------------------------------------------------
(* Class properties. *)

\* number of class_members rows of tbl for the pair (class_id, student_id)
CountMembers(tbl, class_id, student_id) ==
    Cardinality({i \in 1..Len(tbl) : /\ tbl[i].class_id = class_id
                                     /\ tbl[i].student_id = student_id})

ClassIds == {classes[i].id : i \in 1..Len(classes)}
UserIds == {users[i].id : i \in 1..Len(users)}

\* C1 as stated: for every (class, student) pair there is at most one
\* class_members row, whatever the interleaving of join requests.
C1_OneMembershipPerPair ==
    \A c \in ClassIds, u \in UserIds : CountMembers(class_members, c, u) <= 1

\* C2: when join requests run one after the other, a request of a student
\* who is not yet a member of the class returns "Joined successfully." and
\* leaves exactly one row for the pair; a request of a student who is a
\* member returns "Already a member." and inserts nothing.
C2_JoinTwice ==
    [][\A s \in Sessions :
         (Acted(s) /\ pc[s] \in {"join_check", "join_insert"} /\ pc'[s] = "idle") =>
            LET c == req[s].class_id
                u == session[s].user_id
            IN  IF CountMembers(class_members, c, u) > 0
                THEN /\ out' = [session |-> s, msg |-> MsgAlreadyMember]
                     /\ class_members' = class_members
                ELSE /\ out' = [session |-> s, msg |-> MsgJoined]
                     /\ CountMembers(class_members', c, u) = 1
                     /\ Len(class_members') = Len(class_members) + 1
      ]_vars

\* C2 witness: a student who had joined asked again and was told so; the
\* pair still has one row
C2_Witness ==
    /\ out.msg = MsgAlreadyMember
    /\ \E c \in ClassIds :
           CountMembers(class_members, c, session[out.session].user_id) = 1

IsCodeChar(ch) == ch \in Upper \/ ch \in Digits

\* C5: every classes row has a code of exactly 6 characters of [A-Z0-9],
\* and no two classes rows have the same code.
C5_CodesWellFormedUnique ==
    /\ \A i \in 1..Len(classes) :
           /\ Len(classes[i].code) = 6
           /\ \A k \in 1..Len(classes[i].code) : IsCodeChar(classes[i].code[k])
    /\ \A i, j \in 1..Len(classes) :
           (i # j) => (classes[i].code # classes[j].code)

\* C5 witness: with two classes stored, a further create_class drew the
\* code of one of them
C5_Witness ==
    /\ Len(classes) >= 2
    /\ out.msg = ExcIntegrity

\* C6 as stated: no request ends in an exception that escapes its handler.
C6_NoUnhandledFailure == out.msg # ExcIntegrity

ValidationMsgs ==
    {MsgNameFormat, MsgPwMismatch, MsgUserExists, MsgInvalidCode}

\* C7: a request that ends in a validation error leaves every table
\* unchanged: a sign-up with a badly formed name, a password that differs
\* from its confirmation or a registered name never reaches the insert, or
\* is refused by it, and adds no users row; a join with a code that matches
\* no class returns "Invalid class code." and adds no class_members row.
C7_ValidationNoChange ==
    [][\A s \in Sessions : Acted(s) =>
         /\ (pc[s] = "idle" /\ pc'[s] = "idle") => tables' = tables
         /\ (pc[s] = "idle" /\ pc'[s] = "create_user") =>
               /\ tables' = tables
               /\ MatchesNamePattern(Strip(req'[s].name))
               /\ req'[s].pw = req'[s].pw2
               /\ ~Registered(req'[s].name)
         /\ (pc[s] = "create_user" /\ Registered(req[s].name)) => tables' = tables
         /\ \/ /\ tables' = tables
               /\ pc'[s] = "idle"
               /\ out' = [session |-> s, msg |-> MsgInvalidCode]
            \/ \A code \in CodeInputs :
                  ~(/\ JoinLookup(s, code)
                    /\ ~\E i \in 1..Len(classes) : classes[i].code = Strip(code))
         /\ (out' # out /\ out'.msg \in ValidationMsgs) => tables' = tables
      ]_vars

\* C7 witness: a join with an unknown code was refused after a sign-up and
\* a join had each added a row
C7_Witness ==
    /\ out.msg = MsgInvalidCode
    /\ Len(users) > Len(RegisteredUsers)
    /\ Len(class_members) > 0

---------------------------------------------------------------------------
(* Survey and assignment properties. *)

ScoreOf(row, k) == row.mi_scores[CategorySeq[k]]

\* C8: the stored score of each category is the sum of its 5 ratings (so
\* in 5..25), and the stored dominant category has the maximum sum, the
\* earliest category in the fixed order winning ties.
C8_SurveyScoring ==
    \A n \in 1..Len(survey_results) :
        LET row == survey_results[n]
            r == sliders[1]
        IN  /\ \A c \in Categories :
                   /\ row.mi_scores[c] = r[c][1] + r[c][2] + r[c][3] + r[c][4] + r[c][5]
                   /\ row.mi_scores[c] \in 5..25
            /\ \E d \in 1..Len(CategorySeq) :
                   /\ row.dominant_mi = CategorySeq[d]
                   /\ \A e \in 1..Len(CategorySeq) :
                          /\ ScoreOf(row, e) <= ScoreOf(row, d)
                          /\ (e < d) => (ScoreOf(row, e) < ScoreOf(row, d))

\* C8 witness: a stored survey whose maximum is shared by two categories,
\* neither of them the first of the fixed order
C8_Witness ==
    \E n \in 1..Len(survey_results) :
        LET row == survey_results[n]
        IN  /\ row.dominant_mi # CategorySeq[1]
            /\ \E c \in Categories \ {row.dominant_mi} :
                   row.mi_scores[c] = row.mi_scores[row.dominant_mi]

\* positions of the survey_results rows of user u, in insertion order
SurveysOf(tbl, u) == {i \in 1..Len(tbl) : tbl[i].user_id = u}

\* dominant category of the row of u inserted last into tbl
LastInserted(tbl, u) ==
    tbl[CHOOSE i \in SurveysOf(tbl, u) : \A j \in SurveysOf(tbl, u) : j <= i].dominant_mi

\* C9: get_latest_dominant_mi(u) is the dominant category of the most
\* recently inserted survey_results row of u, whatever rows other users
\* have, and no value when u has no row.
C9_LatestDominant ==
    \A u \in UserIds :
        get_latest_dominant_mi(u) =
            IF SurveysOf(survey_results, u) = {} THEN "None"
            ELSE LastInserted(survey_results, u)

\* C9 witness: a student has two surveys with different dominant
\* categories
C9_Witness ==
    \E i, j \in 1..Len(survey_results) :
        /\ i < j
        /\ survey_results[i].user_id = survey_results[j].user_id
        /\ survey_results[i].dominant_mi # survey_results[j].dominant_mi

\* C10 as stated: a completed assignment has added exactly one
\* class_lessons row for each student enrolled in the class when the
\* student list was read, and no other row; each added row carries the
\* class id, the student's id and, as intelligence type, the dominant
\* category of the student's latest survey at the time of the lookup, or
\* "General" without a survey; earlier rows stay in place.
C10_OneRowPerStudent ==
    [][\A s \in Sessions :
         (Acted(s) /\ pc[s] = "assign_save" /\ pc'[s] = "idle") =>
            LET r == req[s]
                new == SubSeq(class_lessons', r.base + 1, Len(class_lessons'))
            IN  /\ SubSeq(class_lessons', 1, Len(class_lessons)) = class_lessons
                /\ \A u \in UserIds :
                       Cardinality({k \in 1..Len(new) : new[k].student_id = u}) =
                           IF u \in r.enrolled THEN 1 ELSE 0
                /\ \A k \in 1..Len(new) :
                       /\ new[k].class_id = r.class_id
                       /\ k <= Len(r.nsurv)
                       /\ LET seen == SubSeq(survey_results, 1, r.nsurv[k])
                          IN  new[k].mi_type =
                                IF SurveysOf(seen, new[k].student_id) = {}
                                THEN "General"
                                ELSE LastInserted(seen, new[k].student_id)
      ]_vars

\* C11: an assignment request with no uploaded file, with an extracted text
\* that is empty or only whitespace (a failed extraction gives the empty
\* text), or for a class without students ends at once: it changes no
\* table and never reaches the per-student steps, where the tailoring call
\* is made; the empty class is reported with st.info and the other cases
\* with st.error; a text without content is reported as such whether or
\* not the class has students, the student list being read after the test
\* of the text; the per-student steps run only with a text that has
\* content and a student list that is not empty.
C11_NoOpAssignment ==
    [][\A s \in Sessions : Acted(s) =>
         /\ pc[s] = "idle" =>
              \A class_id \in ClassIds, uploaded \in BOOLEAN,
                 text \in TextInputs, topic \in TopicInputs :
                  (/\ AssignStart(s, class_id, uploaded, text, topic)
                   /\ \/ ~uploaded
                      \/ Strip(text) = <<>>
                      \/ get_students_in_class(class_id) = <<>>)
                  => /\ tables' = tables
                     /\ pc'[s] = "idle"
                     /\ out'.session = s
                     /\ out'.msg = IF ~uploaded THEN MsgUploadFile
                                   ELSE IF Strip(text) = <<>> THEN MsgNoText
                                   ELSE MsgNoStudents
                     /\ Rendering(out'.msg) =
                            IF ~uploaded \/ Strip(text) = <<>> THEN "error" ELSE "info"
         /\ pc'[s] \in {"assign_lookup", "assign_save"} =>
              /\ Strip(req'[s].text) # <<>>
              /\ req'[s].students # <<>>
      ]_vars

\* C11 witness: after an assignment to a class with students wrote its
\* rows, an assignment to the class without students was reported so
C11_Witness ==
    /\ out.msg = MsgNoStudents
    /\ Len(class_lessons) > 0

\* the rows of table before the step are the first rows of it after the
\* step, field for field
Kept(before, after) ==
    /\ Len(before) <= Len(after)
    /\ SubSeq(after, 1, Len(before)) = before

\* C12: the store is append-only: every step of every operation leaves the
\* rows of users, survey_results, lessons, classes, class_members and
\* class_lessons in place with their field values and at most adds rows,
\* so every row that was ever present is still present and unchanged.
C12_AppendOnly ==
    [][/\ Kept(users, users')
       /\ Kept(survey_results, survey_results')
       /\ Kept(lessons, lessons')
       /\ Kept(classes, classes')
       /\ Kept(class_members, class_members')
       /\ Kept(class_lessons, class_lessons')
      ]_vars

\* C12 witness: every table has received a row, the lessons table two, and
\* everybody has logged out again
C12_Witness ==
    /\ Len(users) > Len(RegisteredUsers)
    /\ Len(survey_results) > 0
    /\ Len(lessons) > 1
    /\ Len(classes) > 1
    /\ Len(class_members) > 0
    /\ Len(class_lessons) > 0
    /\ \A s \in Sessions : ~session[s].logged_in

---------------------------------------------------------------------------
(* Tailoring properties. *)

FallbackHeader(mi_type) == <<"[Tailored for ", mi_type, "] (AI fallback)\n\n">>

\* the fallback as C13 states it: the header, then the first 400 characters
\* of the input
StatedFallback(text, mi_type) ==
    FallbackHeader(mi_type) \o Take(text, FallbackExcerptLen)

\* the same, with the placeholder that follows the header when the input
\* is the empty text
PlaceholderFallback(text, mi_type) ==
    IF text = <<>> THEN FallbackHeader(mi_type) \o <<"Content not available.">>
    ELSE StatedFallback(text, mi_type)

FailureNotice(s) == [session |-> s, msg |-> MsgAIFailed]

\* every call returns a text; a call whose model request fails renders the
\* notice and returns Fallback(text, mi_type); in an assignment every pass
\* of the loop writes the row of its student, with that fallback as content
\* when the request failed, and goes on to the next student, so that the
\* finished assignment has written one row per entry of the student list
NeverFails(Fallback(_, _)) ==
    \A s \in Sessions : Acted(s) =>
        /\ req'[s].op = "tailor" =>
              /\ req'[s].tailored # <<>>
              /\ pc'[s] = "idle"
              /\ TailorCall(s, req'[s].text, req'[s].dominant, "failed") =>
                    /\ req'[s].tailored = Fallback(req'[s].text, req'[s].dominant)
                    /\ out' = FailureNotice(s)
        /\ pc[s] = "assign_save" =>
              /\ Len(class_lessons') = Len(class_lessons) + 1
              /\ LET row == class_lessons'[Len(class_lessons')]
                 IN  /\ row.content # <<>>
                     /\ row.student_id = req[s].students[req[s].i]
                     /\ AssignSave(s, "failed") =>
                            row.content = Fallback(req[s].text, req[s].dominant)
              /\ IF req[s].i < Len(req[s].students)
                 THEN /\ pc'[s] = "assign_lookup"
                      /\ req'[s].i = req[s].i + 1
                      /\ AssignSave(s, "failed") => out' = FailureNotice(s)
                 ELSE /\ pc'[s] = "idle"
                      /\ out' = [session |-> s, msg |-> MsgAssigned]
                      /\ Len(class_lessons') = req[s].base + Len(req[s].students)

\* C13 as stated: generate_tailored_lesson always returns a text; when the
\* model request fails it renders a notice and returns the header naming
\* the intelligence type followed by the first 400 characters of the
\* input; a failure for one student of an assignment does not stop the
\* rows of the remaining students from being written.
C13_TailoringNeverFails_Original == [][NeverFails(StatedFallback)]_vars

\* C13 amended: the same, where for the empty input the header is followed
\* by the placeholder "Content not available." and not by the (empty) first
\* 400 characters of the input.
C13_TailoringNeverFails == [][NeverFails(PlaceholderFallback)]_vars

\* C13 witness: in a finished assignment the model request failed for the
\* first student and succeeded for the second, and both rows were written
C13_Witness ==
    /\ out.msg = MsgAssigned
    /\ \E k \in 1..(Len(class_lessons) - 1) :
           /\ class_lessons[k].student_id = 2
           /\ class_lessons[k].content =
                  PlaceholderFallback(SampleText(FallbackExcerptLen + 1),
                                      class_lessons[k].mi_type)
           /\ class_lessons[k + 1].student_id = 3
           /\ class_lessons[k + 1].content = <<"model response">>

\* the excerpt portion of a local fallback: what stands between the four
\* pieces of the heading ("[Tailored for ", the type, the rest of the first
\* line, "Key points:\n- ") and the practice stubs
Excerpt(tailored) == SubSeq(tailored, 5, Len(tailored) - 1)

\* the first 200 characters of text with each newline replaced by a space
StatedExcerpt(text) ==
    [i \in 1..(IF Len(text) < NoKeyExcerptLen THEN Len(text) ELSE NoKeyExcerptLen) |->
        IF text[i] = "\n" THEN " " ELSE text[i]]

\* without a key, calls with the same arguments returned the same text, and
\* the excerpt portion of every returned text is as Stated says
NoKeyDeterministic(Stated(_)) ==
    /\ \A s, t \in Sessions :
           (/\ req[s].op = "tailor" /\ req[t].op = "tailor"
            /\ req[s].text = req[t].text
            /\ req[s].dominant = req[t].dominant)
           => req[s].tailored = req[t].tailored
    /\ \A s \in Sessions :
           req[s].op = "tailor" => Excerpt(req[s].tailored) = Stated(req[s].text)

\* the same excerpt, with the placeholder that stands for the excerpt of
\* the empty text
ExcerptOrPlaceholder(text) ==
    IF text = <<>> THEN <<"Main idea placeholder">> ELSE StatedExcerpt(text)

\* C14 as stated: with no key configured, for every text and intelligence
\* type, the empty text included, two calls with the same arguments return
\* the same output, and the excerpt portion of the output equals the first
\* 200 characters of the input with each newline replaced by a space.
C14_NoKeyDeterministic_Original == NoKeyDeterministic(StatedExcerpt)

\* C14 amended: the same for every text that is not empty; for the empty
\* text the excerpt portion is the placeholder "Main idea placeholder".
C14_NoKeyDeterministic == NoKeyDeterministic(ExcerptOrPlaceholder)

\* C14 witness: two sessions called with the same text of more than 200
\* characters, newlines among the first 200, and the same type
C14_Witness ==
    \E s, t \in Sessions :
        /\ s # t
        /\ req[s].op = "tailor" /\ req[t].op = "tailor"
        /\ req[s].text = SampleText(NoKeyExcerptLen + 1)
        /\ req[t].text = req[s].text
        /\ req[t].dominant = req[s].dominant

---------------------------------------------------------------------------
(* Session properties. *)

\* the users row with the id, name and role that session s holds
SessionRows(s) ==
    {i \in 1..Len(users) : /\ users[i].id = session[s].user_id
                           /\ users[i].name = session[s].user_name
                           /\ users[i].role = session[s].user_role}

\* a session that is logged in holds the id, name and role of a stored
\* users row, so student pages are run for a stored student and teacher
\* pages for a stored user who is not a student; a session that is not
\* logged in holds no user and shows the landing page
SessionHoldsStoredUser ==
    \A s \in Sessions :
        IF session[s].logged_in
        THEN /\ SessionRows(s) # {}
             /\ session[s].page = "app"
             /\ OnStudentPages(s) => \A i \in SessionRows(s) : users[i].role = "student"
             /\ OnTeacherPages(s) => \A i \in SessionRows(s) : users[i].role # "student"
        ELSE session[s] = LoggedOut

\* the session fields change only in two ways: a log-in sets them, and
\* every submission that logs the session in has the name (without
\* surrounding whitespace) and the password hash of a users row, whose id,
\* name and role the session then holds; a log-out clears them.  A log-in
\* that is turned down changes no session field.
SessionStep ==
    \A s \in Sessions :
        /\ session'[s] # session[s] =>
              IF session[s].logged_in
              THEN session'[s] = LoggedOut
              ELSE /\ session'[s].logged_in
                   /\ out' = [session |-> s, msg |-> MsgLoginOk]
                   /\ \E name \in LoginNameInputs, pw \in LoginPwInputs :
                         LoginSubmit(s, name, pw)
                   /\ \A name \in LoginNameInputs, pw \in LoginPwInputs :
                         LoginSubmit(s, name, pw) =>
                            \E i \in 1..Len(users) :
                               /\ users[i].name = Strip(name)
                               /\ users[i].password = hash_pw(pw)
                               /\ session'[s].user_id = users[i].id
                               /\ session'[s].user_name = users[i].name
                               /\ session'[s].user_role = users[i].role
        /\ (/\ out' # out
            /\ out'.session = s
            /\ out'.msg \in {MsgEnterNamePw, MsgInvalidLogin})
           => session' = session

\* C15: in every reachable state a session is logged in only with the id
\* and role of a stored users row, student pages running only for a stored
\* student and teacher pages only for a stored non-student; a session
\* becomes logged in only by a log-in whose name and password hash are
\* those of that row; a failed log-in changes no session field; after a
\* log-out the session is not logged in and shows the landing page until
\* such a log-in.
C15_SessionAuth == []SessionHoldsStoredUser /\ [][SessionStep]_vars

\* C15 witness: one session is on the student pages, another on the
\* teacher pages as the teacher who signed up meanwhile, and a third was
\* just turned down at the log-in form
C15_Witness ==
    \E s, t \in Sessions :
        /\ OnStudentPages(s)
        /\ OnTeacherPages(t)
        /\ session[t].user_name = NameJoKLe
        /\ out.msg = MsgInvalidLogin
        /\ ~session[out.session].logged_in

====
